---- MODULE Spec2Model ----
(***************************************************************************)
(* Model of worker/app.py: the TSDF worker's session registry, the three   *)
(* request handlers (init_session, ingest_chunk, finalize) and the locks   *)
(* they take.  Each request is a thread of control; a step of a request is *)
(* one stretch of its handler between two synchronisation points.          *)
(* Session objects live in a heap and are referred to by their index, as   *)
(* Python refers to them by reference.  A request slot is reused once its  *)
(* response has been delivered, so request histories are unbounded; the    *)
(* number of chunks ingested in all is capped by MaxChunks.   The mesh   *)
(* file written by the handlers is outside the modelled state.  Spec is    *)
(* the program under any scheduling, FairSpec the program under a fair     *)
(* scheduling of its request threads.                                      *)
(***************************************************************************)
EXTENDS Integers, Sequences, FiniteSets, TLC

\* ------------------------------------------------------------------ bounds
MaxFrames == 2
MaxChunks == 2

\* Two request threads
Reqs == {1, 2}
Tokens == {"tokA", "tokB"}

VARIABLES
    sessions,       \* the registry: token -> heap index of its TSDFSession, 0 = no entry
    sessions_lock,  \* holder of the registry lock (a request), 0 = free
    heap,           \* sequence of TSDFSession objects
    req,            \* per request: handler, arguments, locals, position, response
    seen,           \* tokens on which init_session or ingest_chunk was ever issued
    processed_sum   \* per token: sum of frames_processed over the ingest_chunk calls
                    \* that have returned their counts

vars == <<sessions, sessions_lock, heap, req, seen, processed_sum>>

\* ------------------------------------------------------------ TSDFSession
\* tsdf_volume = None
NoVolume == [id |-> 0, integrated |-> 0]

\* a constructor that builds the volume at once
TSDFSessionEager(token) ==
    [token |-> token, tsdf_volume |-> [id |-> 1, integrated |-> 0], lock |-> 0,
     frame_count |-> 0, chunk_count |-> 0]

\* TSDFSession.__init__
TSDFSession(token) ==
    [token |-> token, tsdf_volume |-> NoVolume, lock |-> 0,
     frame_count |-> 0, chunk_count |-> 0]

\* TSDFSession.initialize_tsdf: a fresh, empty volume replaces whatever was there
\* (id tells the session's successive volume objects apart)
initialize_tsdf(s) ==
    [s EXCEPT !.tsdf_volume = [id |-> s.tsdf_volume.id + 1, integrated |-> 0]]

\* ------------------------------------------------------------------ frames
\* What one frame of a chunk looks like to the loop body of ingest_chunk.
\* depth_valid: the depth image holds at least one valid sample; rigid: the
\* pose T_wc is a rigid transform; has_depthSize, has_K_depth: the keys of meta
\* that create_intrinsic_from_meta looks for.
GoodFrame ==
    [rgb_exists |-> TRUE, depth_exists |-> TRUE, meta_exists |-> TRUE,
     meta_loads |-> TRUE, depth_loads |-> TRUE, color_loads |-> TRUE,
     rgbd_ok |-> TRUE, intrinsic_ok |-> TRUE, has_T_wc |-> TRUE,
     invertible |-> TRUE, integrate_ok |-> TRUE,
     depth_valid |-> TRUE, rigid |-> TRUE,
     has_depthSize |-> TRUE, has_K_depth |-> TRUE]

FrameKinds ==
    { GoodFrame,
      [GoodFrame EXCEPT !.rgb_exists = FALSE],
      [GoodFrame EXCEPT !.depth_exists = FALSE],
      [GoodFrame EXCEPT !.meta_exists = FALSE],
      [GoodFrame EXCEPT !.meta_loads = FALSE],
      [GoodFrame EXCEPT !.depth_loads = FALSE],
      [GoodFrame EXCEPT !.color_loads = FALSE],
      [GoodFrame EXCEPT !.rgbd_ok = FALSE],
      [GoodFrame EXCEPT !.intrinsic_ok = FALSE],
      [GoodFrame EXCEPT !.has_T_wc = FALSE],
      [GoodFrame EXCEPT !.invertible = FALSE],
      [GoodFrame EXCEPT !.integrate_ok = FALSE],
      [GoodFrame EXCEPT !.depth_valid = FALSE],
      [GoodFrame EXCEPT !.rigid = FALSE],
      [GoodFrame EXCEPT !.has_depthSize = FALSE],
      [GoodFrame EXCEPT !.has_K_depth = FALSE] }

\* The three existence checks of the loop body (each: warning, frames_failed += 1, continue)
FilesExist(f) == f.rgb_exists /\ f.depth_exists /\ f.meta_exists

\* Loading, RGBD construction, intrinsic and pose: any exception is caught by the
\* per-frame handler before session.integrate_frame is called
Prepared(f) ==
    /\ f.meta_loads /\ f.depth_loads /\ f.color_loads
    /\ f.rgbd_ok /\ f.intrinsic_ok
    /\ f.has_T_wc /\ f.invertible

ReachesIntegrate(f) == FilesExist(f) /\ Prepared(f)

\* create_intrinsic_from_meta: which matrix the intrinsic is built from
IntrinsicPath(f) ==
    IF f.has_depthSize
    THEN IF f.has_K_depth THEN "K_depth" ELSE "K_color_scaled"
    ELSE "K_color"

\* the call of create_intrinsic_from_meta is reached
ReachesIntrinsic(f) ==
    FilesExist(f) /\ f.meta_loads /\ f.depth_loads /\ f.color_loads /\ f.rgbd_ok

\* the intrinsic of the frame is the color intrinsic scaled to the depth size
UsesFallback(f) == ReachesIntrinsic(f) /\ IntrinsicPath(f) = "K_color_scaled"

\* The log lines that handling frame f writes: a warning for the first missing
\* file; the loader's error and the per-frame handler's error for a file that
\* does not load; the per-frame handler's error for any other exception.
\* create_intrinsic_from_meta and its caller write no line of their own.
FrameLog(f) ==
    CASE ~f.rgb_exists   -> {"warning_missing_rgb"}
      [] ~f.depth_exists -> {"warning_missing_depth"}
      [] ~f.meta_exists  -> {"warning_missing_meta"}
      [] ~f.meta_loads   -> {"error_load_meta", "error_processing_frame"}
      [] ~f.depth_loads  -> {"error_load_depth", "error_processing_frame"}
      [] ~f.color_loads  -> {"error_load_color", "error_processing_frame"}
      [] ~(f.rgbd_ok /\ f.intrinsic_ok /\ f.has_T_wc /\ f.invertible /\ f.integrate_ok)
                         -> {"error_processing_frame"}
      [] OTHER           -> {}

\* What the loop body's effect depends on in a frame: whether the frame gets
\* as far as session.integrate_frame, and whether the volume's integrate
\* accepts it
FrameOutcome(f) ==
    [reaches_integrate |-> ReachesIntegrate(f),
     integrate_ok |-> f.integrate_ok]

\* The outcomes of all kinds of frames
FrameOutcomes == {FrameOutcome(f) : f \in FrameKinds}

\* an integrate_frame that builds a new volume for every frame
integrate_frame_recreates(s, f) ==
    LET s1 == initialize_tsdf(s)
    IN  IF f.integrate_ok
        THEN [s1 EXCEPT !.tsdf_volume.integrated = @ + 1,
                        !.frame_count = @ + 1]
        ELSE s1

\* TSDFSession.integrate_frame: lazily create the volume, integrate, count.
\* When the volume's integrate raises, the volume created just before stays.
\* f is the outcome of the frame.
integrate_frame(s, f) ==
    LET s1 == IF s.tsdf_volume = NoVolume THEN initialize_tsdf(s) ELSE s
    IN  IF f.integrate_ok
        THEN [s1 EXCEPT !.tsdf_volume.integrated = @ + 1,
                        !.frame_count = @ + 1]
        ELSE s1


\* ---------------------------------------------------------------- requests
NoResp == [status |-> "none", frames_processed |-> -1, frames_failed |-> -1,
           total_frames |-> -1, vertices_of |-> -1]

IdleReq ==
    [op |-> "none", token |-> "tokA", pc |-> "idle", session |-> 0, found |-> FALSE,
     frame_ids |-> 0, idx |-> 0, frames_processed |-> 0, frames_failed |-> 0,
     frame_id |-> 0, start_count |-> 0, extracted |-> FALSE, resp |-> NoResp]

Init ==
    /\ sessions = [t \in Tokens |-> 0]
    /\ sessions_lock = 0
    /\ heap = <<>>
    /\ req = [r \in Reqs |-> IdleReq]
    /\ seen = {}
    /\ processed_sum = [t \in Tokens |-> 0]

\* The session a request works on
Sess(r) == heap[req[r].session]

\* The handler of r ends with response resp
Done(r, resp) == [req[r] EXCEPT !.pc = "done", !.resp = resp]

\* Sum of chunk_count over the first n session objects
RECURSIVE ChunkCount(_)
ChunkCount(n) == IF n = 0 THEN 0 ELSE heap[n].chunk_count + ChunkCount(n - 1)

\* ingest_chunk calls that may still reach "session.chunk_count += 1"
Pending ==
    Cardinality({r \in Reqs : /\ req[r].op = "ingest_chunk"
                              /\ req[r].pc \in {"gs_acquire", "gs_locked", "ic_index",
                                                "ic_lock", "ic_loop"}})

\* ----------------------------------------------------------- handler entry
\* init_session, up to its call of get_session
init_session(r) ==
    /\ req[r].pc = "idle"
    /\ \E t \in Tokens :
         /\ req' = [req EXCEPT ![r] = [IdleReq EXCEPT !.op = "init_session", !.token = t,
                                                     !.pc = "gs_acquire"]]
         /\ seen' = seen \cup {t}
    /\ UNCHANGED <<sessions, sessions_lock, heap, processed_sum>>

\* ingest_chunk, up to its call of get_session: a missing chunk path is a 404
\* raised before any session is looked up
ingest_chunk(r) ==
    /\ req[r].pc = "idle"
    /\ \E t \in Tokens, path_exists \in BOOLEAN :
         LET q == [IdleReq EXCEPT !.op = "ingest_chunk", !.token = t] IN
         /\ ChunkCount(Len(heap)) + Pending < MaxChunks
         /\ req' = [req EXCEPT ![r] =
                      IF path_exists
                      THEN [q EXCEPT !.pc = "gs_acquire"]
                      ELSE [q EXCEPT !.pc = "done",
                                     !.resp = [NoResp EXCEPT !.status = "http_404"]]]
         /\ seen' = seen \cup {t}
    /\ UNCHANGED <<sessions, sessions_lock, heap, processed_sum>>

\* finalize, up to its call of get_session
finalize(r) ==
    /\ req[r].pc = "idle"
    /\ \E t \in Tokens :
         req' = [req EXCEPT ![r] = [IdleReq EXCEPT !.op = "finalize", !.token = t,
                                                   !.pc = "gs_acquire"]]
    /\ UNCHANGED <<sessions, sessions_lock, heap, seen, processed_sum>>

\* the response has been delivered; the slot serves the next request
reply(r) ==
    /\ req[r].pc = "done"
    /\ req' = [req EXCEPT ![r] = IdleReq]
    /\ UNCHANGED <<sessions, sessions_lock, heap, seen, processed_sum>>

\* -------------------------------------------------------------- get_session
\* a registry lock that admits everyone
LockFreeIgnored(holder) == TRUE

\* threading.Lock: acquire succeeds on a lock nobody holds (holder 0)
LockFree(holder) == holder = 0

\* "with sessions_lock:" entered, and "token not in sessions" evaluated
get_session_enter(r) ==
    /\ req[r].pc = "gs_acquire"
    /\ LockFree(sessions_lock)
    /\ sessions_lock' = r
    /\ req' = [req EXCEPT ![r] = [@ EXCEPT !.pc = "gs_locked",
                                           !.found = (sessions[req[r].token] # 0)]]
    /\ UNCHANGED <<sessions, heap, seen, processed_sum>>

\* Where the handler goes on after get_session returned
AfterGetSession(op) ==
    CASE op = "init_session" -> "is_lock"
      [] op = "ingest_chunk" -> "ic_index"
      [] op = "finalize"     -> "fn_lock"

\* "if token not in sessions: sessions[token] = TSDFSession(token)"
MustCreate(found) == ~found

\* a registry lock kept past the return
ReleaseRegistryKept(holder) == holder

\* the registry lock as get_session leaves it
ReleaseRegistry(holder) == 0

\* a lookup that returns whichever session is registered first
RegisteredAny(reg, t) ==
    IF \E u \in Tokens : reg[u] # 0
    THEN reg[CHOOSE u \in Tokens : reg[u] # 0]
    ELSE reg[t]

\* "return sessions[token]"
Registered(reg, t) == reg[t]

\* the entry is created if the test found none; sessions[token] is returned and
\* the registry lock released
get_session_exit(r) ==
    LET t == req[r].token
        create == MustCreate(req[r].found)
        heap1 == IF create THEN Append(heap, TSDFSession(t)) ELSE heap
        sessions1 == IF create THEN [sessions EXCEPT ![t] = Len(heap1)] ELSE sessions
    IN  /\ req[r].pc = "gs_locked"
        /\ heap' = heap1
        /\ sessions' = sessions1
        /\ sessions_lock' = ReleaseRegistry(sessions_lock)
        /\ req' = [req EXCEPT ![r] = [@ EXCEPT !.session = Registered(sessions1, t),
                                               !.found = FALSE,
                                               !.pc = AfterGetSession(req[r].op)]]
        /\ UNCHANGED <<seen, processed_sum>>

\* ------------------------------------------------------------- session guard
\* a session guard that admits everyone
GuardFreeIgnored(s) == TRUE

\* "with session.lock:" can be entered
GuardFree(s) == s.lock = 0

\* ------------------------------------------------------------- init_session
\* "with session.lock:" entered
init_session_lock(r) ==
    /\ req[r].pc = "is_lock"
    /\ GuardFree(Sess(r))
    /\ heap' = [heap EXCEPT ![req[r].session].lock = r]
    /\ req' = [req EXCEPT ![r].pc = "is_body"]
    /\ UNCHANGED <<sessions, sessions_lock, seen, processed_sum>>

\* initialize_tsdf called unconditionally
NeedsVolumeAlways(s) == TRUE

\* "if session.tsdf_volume is None:"
NeedsVolume(s) == s.tsdf_volume = NoVolume

\* the body under the guard, the release and the response
init_session_body(r) ==
    LET s == Sess(r)
        fresh == NeedsVolume(s)
        s1 == IF fresh THEN initialize_tsdf(s) ELSE s
    IN  /\ req[r].pc = "is_body"
        /\ heap' = [heap EXCEPT ![req[r].session] = [s1 EXCEPT !.lock = 0]]
        /\ req' = [req EXCEPT ![r] = Done(r, [NoResp EXCEPT !.status = "ok"])]
        /\ UNCHANGED <<sessions, sessions_lock, seen, processed_sum>>

\* ------------------------------------------------------------- ingest_chunk
\* index.json: missing -> 400, unreadable -> 500 (outer handler), no frames ->
\* early "ok" with frames_processed 0; otherwise on to the session guard
ingest_chunk_index(r) ==
    /\ req[r].pc = "ic_index"
    /\ \E index \in {"missing", "unreadable", "ok"}, n \in 0..MaxFrames :
         req' = [req EXCEPT ![r] =
                   CASE index = "missing" ->
                          Done(r, [NoResp EXCEPT !.status = "http_400"])
                     [] index = "unreadable" ->
                          Done(r, [NoResp EXCEPT !.status = "http_500"])
                     [] index = "ok" /\ n = 0 ->
                          Done(r, [NoResp EXCEPT !.status = "ok", !.frames_processed = 0])
                     [] OTHER ->
                          [@ EXCEPT !.frame_ids = n, !.pc = "ic_lock"]]
    /\ UNCHANGED <<sessions, sessions_lock, heap, seen, processed_sum>>

\* "with session.lock:" entered
ingest_chunk_lock(r) ==
    /\ req[r].pc = "ic_lock"
    /\ GuardFree(Sess(r))
    /\ heap' = [heap EXCEPT ![req[r].session].lock = r]
    /\ req' = [req EXCEPT ![r] = [@ EXCEPT !.pc = "ic_loop",
                                           !.start_count = Sess(r).frame_count]]
    /\ UNCHANGED <<sessions, sessions_lock, seen, processed_sum>>

\* a loop that walks frame_ids from its end
NextFrameReversed(q) == q.frame_ids - q.idx

\* "for frame_id in frame_ids": the position in frame_ids of the frame that the
\* iteration after q.idx completed iterations handles
NextFrame(q) == q.idx + 1

\* the locals after "frames_processed += 1" at the end of the loop body
\* (frame_id: the position in frame_ids of the frame just handled)
FrameProcessed(q) ==
    [q EXCEPT !.idx = @ + 1, !.frames_processed = @ + 1, !.frame_id = NextFrame(q)]

\* a failure that leaves the loop
FrameFailedBreaks(q) == [q EXCEPT !.idx = q.frame_ids, !.frames_failed = @ + 1]

\* the locals after "frames_failed += 1; continue"
FrameFailed(q) ==
    [q EXCEPT !.idx = @ + 1, !.frames_failed = @ + 1, !.frame_id = NextFrame(q)]

\* The loop body on a frame of outcome f, for session s and locals q: the
\* session and the locals it leaves
HandleFrame(s, q, f) ==
    [session |-> IF f.reaches_integrate THEN integrate_frame(s, f) ELSE s,
     locals  |-> IF f.reaches_integrate /\ f.integrate_ok
                 THEN FrameProcessed(q)
                 ELSE FrameFailed(q)]

\* one iteration of "for frame_id in frame_ids"
ingest_chunk_frame(r) ==
    /\ req[r].pc = "ic_loop"
    /\ req[r].idx < req[r].frame_ids
    /\ \E f \in FrameOutcomes :
         LET h == HandleFrame(Sess(r), req[r], f)
         IN  /\ heap' = [heap EXCEPT ![req[r].session] = h.session]
             /\ req' = [req EXCEPT ![r] = h.locals]
    /\ UNCHANGED <<sessions, sessions_lock, seen, processed_sum>>

\* after the loop: session.chunk_count += 1
ingest_chunk_count(r) ==
    /\ req[r].pc = "ic_loop"
    /\ req[r].idx = req[r].frame_ids
    /\ heap' = [heap EXCEPT ![req[r].session].chunk_count = @ + 1]
    /\ req' = [req EXCEPT ![r] = [@ EXCEPT !.pc = "ic_preview"]]
    /\ UNCHANGED <<sessions, sessions_lock, seen, processed_sum>>

\* What the preview's try block comes to: with no volume,
\* session.tsdf_volume.extract_triangle_mesh() raises
PreviewOutcome(s, outcome) == IF s.tsdf_volume = NoVolume THEN "raises" ELSE outcome

\* a preview whose exception reaches the outer handler
AfterPreviewPropagates(o) == IF o = "raises" THEN "done" ELSE "ic_return"

\* The position of ingest_chunk after the preview's try/except
AfterPreview(o) == "ic_return"

\* the preview extraction in its own try/except, then the guard is released
ingest_chunk_preview(r) ==
    LET s == Sess(r) IN
    /\ req[r].pc = "ic_preview"
    /\ \E outcome \in {"written", "raises", "not_written"} :
         LET o == PreviewOutcome(s, outcome) IN
         req' = [req EXCEPT ![r] =
                   IF AfterPreview(o) = "ic_return"
                   THEN [@ EXCEPT !.pc = "ic_return",
                                  !.extracted = (s.tsdf_volume # NoVolume)]
                   ELSE [Done(r, [NoResp EXCEPT !.status = "http_500"])
                            EXCEPT !.extracted = (s.tsdf_volume # NoVolume)]]
    /\ heap' = [heap EXCEPT ![req[r].session].lock = 0]
    /\ UNCHANGED <<sessions, sessions_lock, seen, processed_sum>>

\* the return statement, outside the guard: session.frame_count is read here
ingest_chunk_return(r) ==
    /\ req[r].pc = "ic_return"
    /\ req' = [req EXCEPT ![r] =
                 Done(r, [NoResp EXCEPT !.status = "ok",
                                        !.frames_processed = req[r].frames_processed,
                                        !.frames_failed = req[r].frames_failed,
                                        !.total_frames = Sess(r).frame_count])]
    /\ processed_sum' = [processed_sum EXCEPT ![req[r].token] = @ + req[r].frames_processed]
    /\ UNCHANGED <<sessions, sessions_lock, heap, seen>>

\* ----------------------------------------------------------------- finalize
\* "with session.lock:" entered
finalize_lock(r) ==
    /\ req[r].pc = "fn_lock"
    /\ GuardFree(Sess(r))
    /\ heap' = [heap EXCEPT ![req[r].session].lock = r]
    /\ req' = [req EXCEPT ![r].pc = "fn_body"]
    /\ UNCHANGED <<sessions, sessions_lock, seen, processed_sum>>

\* a precondition on the frame counter instead of the volume
NotInitializedByCount(s) == s.frame_count = 0

\* "if session.tsdf_volume is None: raise HTTPException(400)"
NotInitialized(s) == s.tsdf_volume = NoVolume

\* a finalize that drops the volume once the mesh is out
finalize_session_reset(s) == [s EXCEPT !.tsdf_volume = NoVolume]

\* The session's fields as the body of finalize leaves them: it assigns none
finalize_session(s) == s

\* the body under the guard, the release and the response
finalize_body(r) ==
    LET s == Sess(r) IN
    /\ req[r].pc = "fn_body"
    /\ \E outcome \in {"written", "raises", "not_written"} :
         req' = [req EXCEPT ![r] =
                   IF NotInitialized(s)
                   THEN Done(r, [NoResp EXCEPT !.status = "http_400"])
                   ELSE [Done(r, IF outcome = "written"
                                 THEN [NoResp EXCEPT !.status = "ok",
                                                     !.vertices_of = s.tsdf_volume.integrated,
                                                     !.total_frames = s.frame_count]
                                 ELSE [NoResp EXCEPT !.status = "http_500"])
                         EXCEPT !.extracted = TRUE]]
    /\ heap' = [heap EXCEPT ![req[r].session] = [finalize_session(s) EXCEPT !.lock = 0]]
    /\ UNCHANGED <<sessions, sessions_lock, seen, processed_sum>>

\* --------------------------------------------------------------------- Next
Next ==
    \E r \in Reqs :
        \/ init_session(r)
        \/ ingest_chunk(r)
        \/ finalize(r)
        \/ reply(r)
        \/ get_session_enter(r)
        \/ get_session_exit(r)
        \/ init_session_lock(r)
        \/ init_session_body(r)
        \/ ingest_chunk_index(r)
        \/ ingest_chunk_lock(r)
        \/ ingest_chunk_frame(r)
        \/ ingest_chunk_count(r)
        \/ ingest_chunk_preview(r)
        \/ ingest_chunk_return(r)
        \/ finalize_lock(r)
        \/ finalize_body(r)

Spec == Init /\ [][Next]_vars

\* ----------------------------------------------------------------- fairness
\* The steps of r that wait for a lock: they can be taken only while the lock
\* is free
Acquire(r) ==
    \/ get_session_enter(r)
    \/ init_session_lock(r)
    \/ ingest_chunk_lock(r)
    \/ finalize_lock(r)

\* The steps of r that wait for nothing
Advance(r) ==
    \/ get_session_exit(r)
    \/ init_session_body(r)
    \/ ingest_chunk_index(r)
    \/ ingest_chunk_frame(r)
    \/ ingest_chunk_count(r)
    \/ ingest_chunk_preview(r)
    \/ ingest_chunk_return(r)
    \/ finalize_body(r)

\* Fair scheduling: a request thread that can run is run, and a thread waiting
\* for a lock that is free again and again obtains it.  A request is at one
\* position at a time, so at most one of its steps is enabled, and a step that
\* waits for nothing stays enabled until it is taken: strong fairness of the
\* request's steps taken together says exactly that.  Nothing obliges a client
\* to issue a request or to collect a response.
FairSpec ==
    Spec /\ \A r \in Reqs : SF_vars(Acquire(r) \/ Advance(r))

\* =============================================================== properties
\* r is inside the part of its handler that the session guard encloses
Inside(r) == req[r].pc \in {"is_body", "ic_loop", "ic_preview", "fn_body"}

\* r has finished an ingest_chunk that went through the frame loop
IngestDone(r) ==
    req[r].op = "ingest_chunk" /\ req[r].pc = "done" /\ req[r].frame_ids > 0

\* r has finished a finalize
FinalizeDone(r) == req[r].op = "finalize" /\ req[r].pc = "done"

\* The fields of a session that integration and initialisation write
Content(s) ==
    [tsdf_volume |-> s.tsdf_volume, frame_count |-> s.frame_count,
     chunk_count |-> s.chunk_count]

\* The content of a session that has no volume and has counted nothing
EmptyContent ==
    [tsdf_volume |-> [id |-> 0, integrated |-> 0], frame_count |-> 0, chunk_count |-> 0]

\* Every session object of the pre-state keeps its content in the post-state,
\* and every session object the step creates is empty
SessionsKept ==
    /\ Len(heap') >= Len(heap)
    /\ \A i \in 1..Len(heap') :
         Content(heap'[i]) = IF i <= Len(heap) THEN Content(heap[i]) ELSE EmptyContent

\* The step is taken by request r running handler op
StepOf(r, op) == req'[r] # req[r] /\ req'[r].op = op

\* C1: at most one request per token is inside the guarded part of its handler
\* (volume creation, frame integration, counter updates, mesh extraction), and
\* it is the holder of that session's guard; so no extraction overlaps an
\* integration of the same session.
C1_GuardExclusive ==
    /\ \A r1, r2 \in Reqs :
         (r1 # r2 /\ Inside(r1) /\ Inside(r2)) => req[r1].token # req[r2].token
    /\ \A r \in Reqs : Inside(r) => Sess(r).lock = r

\* one request is in the middle of its frame loop while a finalize on the same
\* token waits at the guard
C1_Witness ==
    \E r1, r2 \in Reqs :
        /\ req[r1].pc = "ic_loop" /\ req[r1].frames_processed = 1
        /\ req[r2].pc = "fn_lock" /\ req[r2].token = req[r1].token
        /\ req[r2].session = req[r1].session

\* C2: every frame of the list is attempted and counted exactly once, as
\* processed or as failed, whatever failed before it; the call that went
\* through the loop answers ok with counts that add up to the list's length.
C2_EveryFrameCounted ==
    \A r \in Reqs :
        /\ req[r].pc = "ic_loop" =>
              /\ req[r].idx <= req[r].frame_ids
              /\ req[r].frames_processed + req[r].frames_failed = req[r].idx
        /\ req[r].pc \in {"ic_preview", "ic_return"} =>
              /\ req[r].idx = req[r].frame_ids
              /\ req[r].frames_processed + req[r].frames_failed = req[r].frame_ids
        /\ IngestDone(r) =>
              /\ req[r].resp.status = "ok"
              /\ req[r].resp.frames_processed + req[r].resp.frames_failed
                    = req[r].frame_ids

\* a chunk of two frames, one failed and one integrated, answered ok
C2_Witness ==
    \E r \in Reqs :
        /\ IngestDone(r) /\ req[r].frame_ids = 2
        /\ req[r].resp.frames_failed = 1 /\ req[r].resp.frames_processed = 1

C4_FinalizeUnseenToken ==
    \A t \in Tokens \ seen :
        /\ sessions[t] # 0 => Content(heap[sessions[t]]) = EmptyContent
        /\ \A r \in Reqs :
             (FinalizeDone(r) /\ req[r].token = t) =>
                 (req[r].resp.status = "http_400" /\ ~req[r].extracted)

\* two finalize calls on a never-seen token have both failed
C4_Witness ==
    \E t \in Tokens \ seen :
        /\ sessions[t] # 0
        /\ \A r \in Reqs : FinalizeDone(r) /\ req[r].token = t

\* C5 as stated: a finalize on a session into which no frame has been
\* integrated (frame_count = 0) fails with NotInitialized (calls whose mesh
\* extraction or write itself failed are left aside).
C5_FailsWhileNoFrame ==
    \A r \in Reqs :
        (FinalizeDone(r) /\ Sess(r).frame_count = 0 /\ req[r].resp.status # "http_500")
            => req[r].resp.status = "http_400"

\* C5 amended: finalize fails with NotInitialized exactly when the session has
\* no volume at the moment finalize holds the guard; on an empty volume
\* (frame_count = 0) it extracts.
C5_FailsIffNoVolume ==
    [][\A r \in Reqs :
          (req[r].pc = "fn_body" /\ req'[r].pc = "done") =>
              /\ (req'[r].resp.status = "http_400") <=> (Sess(r).tsdf_volume = NoVolume)
              /\ req'[r].extracted <=> (Sess(r).tsdf_volume # NoVolume)]_vars

\* with frame_count = 0 on both tokens, a finalize has failed on the session
\* without volume and another has succeeded on the session with an empty one
C5_Witness ==
    \E r1, r2 \in Reqs :
        /\ FinalizeDone(r1) /\ Sess(r1).frame_count = 0
        /\ req[r1].resp.status = "http_400"
        /\ FinalizeDone(r2) /\ Sess(r2).frame_count = 0
        /\ req[r2].resp.status = "ok" /\ req[r2].resp.total_frames = 0

\* C6: no step of a finalize call, successful or failed, changes the volume,
\* frame_count or chunk_count of any session (a session it creates is empty).
C6_FinalizeReadOnly ==
    [][\A r \in Reqs : StepOf(r, "finalize") => SessionsKept]_vars

\* a finalize has reported one frame, and an ingest_chunk accepted afterwards
\* on the same session has brought the total to two in the same volume
C6_Witness ==
    \E r1, r2 \in Reqs :
        /\ FinalizeDone(r1) /\ req[r1].resp.status = "ok"
        /\ req[r1].resp.total_frames = 1
        /\ IngestDone(r2) /\ req[r2].session = req[r1].session
        /\ req[r2].start_count = 1 /\ req[r2].resp.total_frames = 2
        /\ Sess(r2).tsdf_volume = [id |-> 1, integrated |-> 2]

\* C7: init_session always answers ok; no step of it changes frame_count or
\* chunk_count, and the only change it makes to a volume is to create the
\* empty one where there was none.
C7_InitIdempotent ==
    [][\A r \in Reqs :
          StepOf(r, "init_session") =>
              /\ req'[r].pc = "done" => req'[r].resp.status = "ok"
              /\ Len(heap') >= Len(heap)
              /\ \A i \in 1..Len(heap) :
                    /\ heap'[i].frame_count = heap[i].frame_count
                    /\ heap'[i].chunk_count = heap[i].chunk_count
                    /\ \/ heap'[i].tsdf_volume = heap[i].tsdf_volume
                       \/ /\ heap[i].tsdf_volume = NoVolume
                          /\ heap'[i].tsdf_volume # NoVolume
                          /\ heap'[i].tsdf_volume.integrated = 0
                          /\ i = req[r].session /\ req[r].pc = "is_body"]_vars

\* two init_session calls have completed on a session whose first volume
\* holds an integrated frame
C7_Witness ==
    \E t \in Tokens :
        /\ \A r \in Reqs : /\ req[r].op = "init_session" /\ req[r].pc = "done"
                           /\ req[r].token = t /\ req[r].resp.status = "ok"
        /\ heap[sessions[t]].tsdf_volume = [id |-> 1, integrated |-> 1]
        /\ heap[sessions[t]].frame_count = 1

\* C8: the preview step, failed or not, leaves every session's volume and
\* counters and the call's own counts as they are and leads to the return
\* statement, which answers ok with those counts.
C8_PreviewBestEffort ==
    [][\A r \in Reqs :
          /\ (req[r].pc = "ic_preview" /\ req'[r] # req[r]) =>
                /\ req'[r].pc = "ic_return"
                /\ SessionsKept
                /\ req'[r].frames_processed = req[r].frames_processed
                /\ req'[r].frames_failed = req[r].frames_failed
          /\ (req[r].pc = "ic_return" /\ req'[r] # req[r]) =>
                /\ req'[r].pc = "done"
                /\ req'[r].resp.status = "ok"
                /\ req'[r].resp.frames_processed = req[r].frames_processed
                /\ req'[r].resp.frames_failed = req[r].frames_failed]_vars

\* every frame of a chunk failed before integration, the session still has no
\* volume (so the preview raised), and the call answered ok
C8_Witness ==
    \E r \in Reqs :
        /\ IngestDone(r) /\ req[r].resp.status = "ok"
        /\ req[r].resp.frames_failed = req[r].frame_ids
        /\ ~req[r].extracted
        /\ Sess(r).tsdf_volume = NoVolume /\ Sess(r).chunk_count = 1

\* C9: every session object ever created is the one the registry maps its
\* token to (so there is one per token, and no entry was replaced or removed),
\* and every request past get_session holds the session of its token.
C9_OneSessionPerToken ==
    /\ \A i \in 1..Len(heap) : sessions[heap[i].token] = i
    /\ \A t \in Tokens : sessions[t] # 0 =>
           (sessions[t] \in 1..Len(heap) /\ heap[sessions[t]].token = t)
    /\ \A r \in Reqs : req[r].session # 0 => req[r].session = sessions[req[r].token]
    /\ \A r \in Reqs : req[r].pc \notin {"idle", "gs_acquire", "gs_locked"} =>
           (req[r].op = "ingest_chunk" /\ req[r].resp.status = "http_404")
              \/ req[r].session # 0

\* both requests name the same token and hold the same session object, one of
\* them having found the entry the other created
C9_Witness ==
    \E r1, r2 \in Reqs :
        /\ r1 # r2 /\ req[r1].token = req[r2].token
        /\ req[r1].session # 0 /\ req[r1].session = req[r2].session
        /\ req[r1].pc \in {"is_lock", "ic_lock", "fn_lock", "ic_index"}
        /\ Inside(r2)

\* C10: the registry lock is held only between the entry and the exit of
\* get_session, and a request waiting at a session guard is kept waiting only
\* by a request on the same token.
C10_RegistryLockShort ==
    /\ \A r \in Reqs : (sessions_lock = r) <=> (req[r].pc = "gs_locked")
    /\ \A r \in Reqs :
         (req[r].pc \in {"is_lock", "ic_lock", "fn_lock"} /\ ~GuardFree(Sess(r))) =>
             /\ Sess(r).lock \in Reqs
             /\ req[Sess(r).lock].token = req[r].token

\* while an ingest_chunk is in its frame loop on one token, a finalize that
\* obtained the other token's session meanwhile is inside its own guard
C10_Witness ==
    \E r1, r2 \in Reqs :
        /\ req[r1].pc = "ic_loop" /\ req[r1].idx = 1
        /\ req[r2].token # req[r1].token
        /\ req[r2].pc = "fn_body"
        /\ Sess(r2).lock = r2 /\ Sess(r1).lock = r1

\* C11: within one ingest_chunk call the frames are handled, and so
\* integrated, one at a time in the order of the list: the frame handled by
\* the k-th iteration is the k-th of the list; and between the call's first
\* iteration and its last every integration into the session is one of the
\* call's own, the session having counted exactly the call's frames_processed
\* frames since the call took the guard.
C11_FramesInOrder ==
    \A r \in Reqs :
        req[r].pc = "ic_loop" =>
            /\ req[r].frame_id = req[r].idx
            /\ Sess(r).frame_count = req[r].start_count + req[r].frames_processed
            /\ Sess(r).tsdf_volume.integrated = req[r].start_count + req[r].frames_processed

\* a call has integrated both frames of its list, the second one last, while
\* another ingest_chunk with frames of its own waits at the same session's guard
C11_Witness ==
    \E r1, r2 \in Reqs :
        /\ req[r1].pc = "ic_loop" /\ req[r1].frame_ids = 2
        /\ req[r1].frames_processed = 2 /\ req[r1].frame_id = 2
        /\ req[r2].pc = "ic_lock" /\ req[r2].frame_ids > 0
        /\ req[r2].session = req[r1].session

\* C12: once an ingest_chunk call that went through its frame loop has answered
\* ok, the session's volume exists (so that a finalize which follows is not
\* refused as NotInitialized).
C12_VolumeAfterIngest ==
    \A r \in Reqs :
        (IngestDone(r) /\ req[r].resp.status = "ok") => Sess(r).tsdf_volume # NoVolume

\* the frames whose depth is missing or has no valid sample, or whose pose is
\* not invertible or not rigid
InvalidFrame(f) ==
    \/ ~f.depth_exists \/ ~f.depth_valid
    \/ ~f.invertible \/ ~f.rigid

\* C13: wherever the loop is about to handle a frame, a frame whose depth is
\* missing or has no valid sample, or whose pose is not invertible or not rigid,
\* does not get as far as integrate, is counted in frames_failed and not in
\* frames_processed, leaves frame_count as it is, and the loop goes on to the
\* next frame.
C13_InvalidFrameSkipped ==
    \A r \in Reqs :
        (req[r].pc = "ic_loop" /\ req[r].idx < req[r].frame_ids) =>
            \A f \in FrameKinds :
                InvalidFrame(f) =>
                    LET h == HandleFrame(Sess(r), req[r], FrameOutcome(f)) IN
                    /\ ~ReachesIntegrate(f)
                    /\ h.locals.frames_failed = req[r].frames_failed + 1
                    /\ h.locals.frames_processed = req[r].frames_processed
                    /\ h.locals.idx = req[r].idx + 1
                    /\ h.session.frame_count = Sess(r).frame_count

\* C16: wherever the loop is about to handle a frame, a frame whose intrinsic
\* is built by the fallback (depth size present, no explicit depth intrinsic)
\* has a DegradedIntrinsic warning logged for it and is integrated and counted
\* as processed all the same; a frame with an explicit depth intrinsic has no
\* such warning logged.
C16_FallbackLogged ==
    \A r \in Reqs :
        (req[r].pc = "ic_loop" /\ req[r].idx < req[r].frame_ids) =>
            \A f \in FrameKinds :
                LET h == HandleFrame(Sess(r), req[r], FrameOutcome(f)) IN
                /\ UsesFallback(f) =>
                      /\ "warning_degraded_intrinsic" \in FrameLog(f)
                      /\ h.locals.frames_processed = req[r].frames_processed + 1
                      /\ h.session.frame_count = Sess(r).frame_count + 1
                /\ ~UsesFallback(f) => "warning_degraded_intrinsic" \notin FrameLog(f)

\* r leaves the body of finalize on a session whose volume exists and has had
\* no frame integrated
FinalizesEmpty(r) ==
    /\ req[r].pc = "fn_body" /\ req'[r].pc = "done"
    /\ Sess(r).tsdf_volume # NoVolume
    /\ Sess(r).tsdf_volume.integrated = 0 /\ Sess(r).frame_count = 0

StepToken(r) == IF req[r].pc = "idle" THEN req'[r].token ELSE req[r].token

\* C15: a step of a request on one token, whether its operation succeeds or
\* fails, leaves every other token's session object (volume, frame_count,
\* chunk_count, guard) and registry entry as they were, and leaves every other
\* request, its response included, untouched; nothing changes a session except
\* a step of a request.
C15_TokensIsolated ==
    [][/\ \A r \in Reqs :
            req'[r] # req[r] =>
                /\ \A i \in 1..Len(heap) :
                      heap[i].token # StepToken(r) => heap'[i] = heap[i]
                /\ \A u \in Tokens \ {StepToken(r)} : sessions'[u] = sessions[u]
                /\ \A r2 \in Reqs \ {r} : req'[r2] = req[r2]
       /\ (heap' # heap \/ sessions' # sessions) => \E r \in Reqs : req'[r] # req[r]]_vars

\* an ingest_chunk on one token has counted a failed frame while the other
\* token's session keeps its guard held and the frame its own ingest_chunk
\* integrated
C15_Witness ==
    \E r1, r2 \in Reqs :
        /\ req[r1].op = "ingest_chunk" /\ req[r1].pc = "ic_loop"
        /\ req[r1].frames_failed = 1 /\ req[r1].frames_processed = 0
        /\ req[r2].op = "ingest_chunk" /\ req[r2].pc = "ic_loop"
        /\ req[r2].token # req[r1].token
        /\ req[r2].frames_processed = 1 /\ req[r2].frames_failed = 0
        /\ Sess(r2).lock = r2 /\ Sess(r2).frame_count = 1
        /\ Sess(r1).lock = r1 /\ Sess(r1).frame_count = 0

\* C18: the iteration that counts a frame in frames_failed leaves the session
\* as it was before the frame was attempted: the volume, including whether it
\* exists at all, frame_count and chunk_count are unchanged.
C18_FailedFrameNoEffect ==
    [][\A r \in Reqs :
          (/\ req[r].pc = "ic_loop" /\ req'[r].pc = "ic_loop"
           /\ req'[r].frames_failed = req[r].frames_failed + 1) =>
              Content(heap'[req[r].session]) = Content(Sess(r))]_vars

\* The ingest_chunk calls on session i that hold counts not yet returned
InFlight(i) ==
    {r \in Reqs : /\ req[r].op = "ingest_chunk" /\ req[r].session = i
                  /\ req[r].pc \in {"ic_loop", "ic_preview", "ic_return"}}

\* Sum of the frames_processed locals of the requests in S
RECURSIVE SumProcessed(_)
SumProcessed(S) ==
    IF S = {} THEN 0
    ELSE LET r == CHOOSE x \in S : TRUE
         IN  req[r].frames_processed + SumProcessed(S \ {r})

\* What holds of every session object in every state
SessionInvariant ==
    \A i \in 1..Len(heap) :
        LET s == heap[i] IN
        /\ s.frame_count = s.tsdf_volume.integrated
        /\ s.frame_count > 0 => s.tsdf_volume # NoVolume
        /\ InFlight(i) = {} => s.frame_count = processed_sum[s.token]
        /\ s.frame_count = processed_sum[s.token] + SumProcessed(InFlight(i))

\* What holds of every session object across every step
SessionStep ==
    \A i \in 1..Len(heap) :
        /\ heap'[i].frame_count >= heap[i].frame_count
        /\ heap[i].tsdf_volume # NoVolume =>
              /\ heap'[i].tsdf_volume.id = heap[i].tsdf_volume.id
              /\ heap'[i].tsdf_volume.integrated >= heap[i].tsdf_volume.integrated

\* C19: in every reachable state and for every session, frame_count is the
\* number of integrate calls that completed on its volume; when no
\* ingest_chunk holds unreturned counts on the session it equals the sum of
\* frames_processed over the ingest_chunk calls that returned; frame_count > 0
\* implies that the volume exists; and across every step frame_count does not
\* decrease and a volume that exists is neither replaced nor reset to none.
C19_SessionInvariants == []SessionInvariant /\ [][SessionStep]_vars

\* two ingest_chunk calls on one token have returned one processed frame each,
\* nothing is in flight, and the session counts two frames in its one volume
C19_Witness ==
    \E r1, r2 \in Reqs :
        /\ r1 # r2 /\ IngestDone(r1) /\ IngestDone(r2)
        /\ req[r1].session = req[r2].session
        /\ req[r1].resp.frames_processed = 1 /\ req[r2].resp.frames_processed = 1
        /\ Sess(r1).frame_count = 2 /\ processed_sum[req[r1].token] = 2
        /\ Sess(r1).tsdf_volume = [id |-> 1, integrated |-> 2]

\* r has been issued and has not answered
Busy(r) == req[r].pc \notin {"idle", "done"}

\* No request waits for the registry lock, or holds it, while holding a session
\* guard; and a guard that is held is held by a request inside the guarded part
\* of its handler on that session
NoWaitHolding ==
    \A i \in 1..Len(heap) :
        heap[i].lock # 0 =>
            /\ heap[i].lock \in Reqs
            /\ Inside(heap[i].lock)
            /\ req[heap[i].lock].session = i

\* C20: under fair scheduling every request that holds a session guard
\* eventually releases it, whatever path its handler takes; no request waits for
\* the registry lock while holding a session guard; and every init_session,
\* ingest_chunk and finalize that was issued eventually answers.
C20_EveryRequestCompletes ==
    /\ []NoWaitHolding
    /\ \A r \in Reqs : []<>(~Busy(r))

\* a finalize waits at the guard of the session on which an ingest_chunk is in
\* the middle of its loop, while that ingest_chunk holds no other lock
C20_Witness ==
    \E r1, r2 \in Reqs :
        /\ req[r1].pc = "ic_loop" /\ req[r1].idx = 1 /\ req[r1].frame_ids = 2
        /\ Sess(r1).lock = r1 /\ sessions_lock = 0
        /\ req[r2].op = "finalize" /\ req[r2].pc = "fn_lock"
        /\ req[r2].session = req[r1].session

====
